---- MODULE Spec2Model ----
(***************************************************************************)
(* zone-dropbox: the media library server of src/src/server.mjs.           *)
(*                                                                         *)
(* JavaScript strings are sequences of one-character strings, so that      *)
(* toLowerCase, includes, startsWith and endsWith are computed; undefined  *)
(* is the value NoValue.  The Map `library` is the sequence of its values  *)
(* in insertion order (each value carries its key, mediaId).  Synchronous  *)
(* handlers are one action each; the subtitle handler is split at its      *)
(* await.  `last` records the last request and the response it got.        *)
(***************************************************************************)
EXTENDS Integers, Sequences, FiniteSets, TLC

VARIABLES library, doc, nextId, inflight, deleted, last

vars == <<library, doc, nextId, inflight, deleted, last>>

(* ------------------------------ bounds -------------------------------- *)

\* number of media ids nanoid() hands out in a run
MaxIds == 2
\* number of subtitle uploads whose file operation is still running
MaxInflight == 1

(* ------------------------- program constants -------------------------- *)

MaxTagLen == 32
MaxTitleLen == 128

\* process.env.PASSWORD
PASSWORD == <<"p", "w">>

(* ------------------------------ strings ------------------------------- *)

NoValue == <<"undefined">>

Str(c, n) == [i \in 1..n |-> c]

LowerChar(c) ==
  CASE c = "A" -> "a"
    [] c = "B" -> "b"
    [] c = "P" -> "p"
    [] c = "W" -> "w"
    [] OTHER -> c

toLowerCase(s) == [i \in 1..Len(s) |-> LowerChar(s[i])]

\* String.prototype.includes
includes(s, sub) ==
  \E i \in 0..(Len(s) - Len(sub)) : SubSeq(s, i + 1, i + Len(sub)) = sub

startsWith(s, pre) ==
  Len(pre) <= Len(s) /\ SubSeq(s, 1, Len(pre)) = pre

endsWith(s, suf) ==
  Len(suf) <= Len(s) /\ SubSeq(s, Len(s) - Len(suf) + 1, Len(s)) = suf

\* Array.prototype.includes
arrayIncludes(arr, x) == \E i \in 1..Len(arr) : arr[i] = x

\* JavaScript truthiness of a string or undefined
Truthy(s) == s # NoValue /\ s # <<>>

\* obj[key] for a string-valued property: undefined when obj lacks it
prop(obj, key) == IF key \in DOMAIN obj THEN obj[key] ELSE NoValue

(* ------------------------- Map `library` ------------------------------ *)

Ids(lib) == {lib[i].mediaId : i \in 1..Len(lib)}

libraryHas(lib, id) == \E i \in 1..Len(lib) : lib[i].mediaId = id

libraryGet(lib, id) == lib[CHOOSE i \in 1..Len(lib) : lib[i].mediaId = id]

librarySet(lib, info) ==
  IF libraryHas(lib, info.mediaId)
  THEN [i \in 1..Len(lib) |->
          IF lib[i].mediaId = info.mediaId THEN info ELSE lib[i]]
  ELSE Append(lib, info)

libraryDeleteKeep(lib, id) == lib

libraryDelete(lib, id) ==
  LET Keep(e) == e.mediaId # id IN SelectSeq(lib, Keep)

\* nanoid(): the n-th identifier handed out; identifiers never repeat
nanoid(n) == <<"m", ToString(n)>>

(* --------------------------- persistence ------------------------------ *)

OptionalFields == {"subtitle"}

\* JSON.stringify drops the properties whose value is undefined
ToJson(e) ==
  [f \in (DOMAIN e) \ {g \in OptionalFields \cap DOMAIN e : e[g] = NoValue}
     |-> e[f]]

\* reading a property the document lacks yields undefined
FromJson(j) ==
  [f \in (DOMAIN j) \cup OptionalFields |->
     IF f \in DOMAIN j THEN j[f] ELSE NoValue]

saveNothing(lib, old) == old

\* save(): db.data.entries = Array.from(library); db.write()
save(lib, old) == [i \in 1..Len(lib) |-> <<lib[i].mediaId, ToJson(lib[i])>>]

\* new Map(db.data.entries) at process start
Load(d) == [i \in 1..Len(d) |-> FromJson(d[i][2])]

(* ------------------------------ helpers ------------------------------- *)

\* withSrc(info): {...info, src: info.url, subtitle: info.subtitle}
withSrc(info) ==
  [f \in (DOMAIN info) \cup {"src"} |->
     IF f = "src" THEN info.url ELSE info[f]]

mapWithSrc(entries) == [i \in 1..Len(entries) |-> withSrc(entries[i])]

tagFilterSubstring(entries, tag) ==
  LET Hit(e) == \E i \in 1..Len(e.tags) : includes(e.tags[i], tag)
  IN SelectSeq(entries, Hit)

\* results.filter((entry) => entry.tags.includes(tag))
tagFilter(entries, tag) ==
  LET Hit(e) == arrayIncludes(e.tags, tag) IN SelectSeq(entries, Hit)

titleFilterExact(entries, search) ==
  LET Hit(e) == toLowerCase(e.title) = search IN SelectSeq(entries, Hit)

\* results.filter((entry) => entry.title.toLowerCase().includes(search))
titleFilter(entries, search) ==
  LET Hit(e) == includes(toLowerCase(e.title), search)
  IN SelectSeq(entries, Hit)

\* searchLibrary(options) over Array.from(library.values())
searchLibrary(lib, options) ==
  LET byTag == IF Truthy(prop(options, "tag"))
               THEN tagFilter(lib, toLowerCase(options.tag))
               ELSE lib
  IN IF Truthy(prop(options, "q"))
     THEN titleFilter(byTag, toLowerCase(options.q))
     ELSE byTag

(* --------------------------- authentication --------------------------- *)

Bearer == <<"B", "e", "a", "r", "e", "r">>

requireAuthOpen(authorization, body) == TRUE

\* requireAuth: TRUE when next() is called, FALSE when 401 is sent
requireAuth(authorization, body) ==
  IF authorization # NoValue
     /\ startsWith(authorization, Bearer)
     /\ endsWith(authorization, PASSWORD)
  THEN TRUE
  ELSE prop(body, "password") = PASSWORD

(* ----------------------------- validation ----------------------------- *)

\* joi.string().lowercase(): with the default convert option the value is
\* forced to lowercase before the rules are applied
tagValue(t) == toLowerCase(t)

\* tagSchema: joi.string().lowercase().min(1).max(32) applied to one item
tagError(t) == Len(tagValue(t)) < 1 \/ Len(tagValue(t)) > MaxTagLen

\* joi.array().items(tagSchema).default([])
tagsValue(body, key) ==
  IF key \in DOMAIN body
  THEN [i \in 1..Len(body[key]) |-> tagValue(body[key][i])]
  ELSE <<>>

tagsError(body, key) ==
  key \in DOMAIN body /\ \E i \in 1..Len(body[key]) : tagError(body[key][i])

\* setTitle: joi.string().min(1).max(128), optional
titleError(body) ==
  "setTitle" \in DOMAIN body
  /\ (Len(body.setTitle) < 1 \/ Len(body.setTitle) > MaxTitleLen)

patchSchemaLax(body) ==
  [error |-> (DOMAIN body) \ {"setTitle", "addTags", "delTags"} # {},
   value |-> [setTitle |-> prop(body, "setTitle"),
              addTags |-> tagsValue(body, "addTags"),
              delTags |-> tagsValue(body, "delTags")]]

\* patchSchema.validate(request.body): {value, error}; a key the schema
\* does not name is an error
patchSchema(body) ==
  [error |-> \/ (DOMAIN body) \ {"setTitle", "addTags", "delTags"} # {}
             \/ titleError(body)
             \/ tagsError(body, "addTags")
             \/ tagsError(body, "delTags"),
   value |-> [setTitle |-> prop(body, "setTitle"),
              addTags |-> tagsValue(body, "addTags"),
              delTags |-> tagsValue(body, "delTags")]]

(* ------------------------------ tag sets ------------------------------ *)

\* Set.prototype.add on an insertion-ordered Set
setAdd(s, x) == IF arrayIncludes(s, x) THEN s ELSE Append(s, x)

\* Set.prototype.delete
setDelete(s, x) == LET Keep(t) == t # x IN SelectSeq(s, Keep)

RECURSIVE addAll(_, _)
addAll(s, arr) ==
  IF arr = <<>> THEN s ELSE addAll(setAdd(s, Head(arr)), Tail(arr))

RECURSIVE deleteAll(_, _)
deleteAll(s, arr) ==
  IF arr = <<>> THEN s ELSE deleteAll(setDelete(s, Head(arr)), Tail(arr))

patchTagsNoDelete(tags, addTags, delTags) == addAll(addAll(<<>>, tags), addTags)

\* Array.from(new Set(tags) + addTags - delTags)
patchTags(tags, addTags, delTags) ==
  deleteAll(addAll(addAll(<<>>, tags), addTags), delTags)

\* the handler's assignments to request.libraryEntry
patchEntry(entry, actions) ==
  [entry EXCEPT
     !.title = IF Truthy(actions.setTitle) THEN actions.setTitle ELSE @,
     !.tags = patchTags(@, actions.addTags, actions.delTags)]

(* ------------------------------- inputs ------------------------------- *)

Space == <<" ">>

NoCredential == [authorization |-> NoValue, password |-> NoValue]

BearerExact == [authorization |-> Bearer \o Space \o PASSWORD,
                password |-> NoValue]

BodyExact == [authorization |-> NoValue, password |-> PASSWORD]

\* the (Authorization header, body.password) pairs of the requests;
\* NoValue: the header or the key is not sent
Credentials ==
  { NoCredential, BearerExact, BodyExact,
    [authorization |-> Bearer \o Space \o <<"x">> \o PASSWORD,
     password |-> NoValue],
    [authorization |-> Bearer \o Space \o <<"x">>, password |-> NoValue],
    [authorization |-> <<"B", "a", "s", "i", "c">> \o Space \o PASSWORD,
     password |-> NoValue],
    [authorization |-> NoValue, password |-> <<"p">>],
    [authorization |-> Bearer \o Space \o <<"x">>, password |-> PASSWORD] }

Owner == { BearerExact }

Empty == [x \in {} |-> <<>>]

\* the request body with its password key, when the client sent one
withPassword(body, cred) ==
  IF cred.password = NoValue
  THEN body
  ELSE [f \in (DOMAIN body) \cup {"password"} |->
          IF f = "password" THEN cred.password ELSE body[f]]

\* media ids a path may carry: handed out or not (yet)
PathIds == {nanoid(n) : n \in 1..MaxIds}

CreateBodies == { [title |-> <<"A", "b">>, url |-> <<"u">>] }

TagParams == { <<>>, <<"a">>, <<"A">>, <<"a", "b">>, <<"b">> }
QParams == { <<>>, <<"a">>, <<"B">>, <<"a", "b">>, <<"b", "a">> }

\* request.query of GET /dropbox
Queries ==
  { Empty }
  \cup { [tag |-> t] : t \in TagParams }
  \cup { [q |-> y] : y \in QParams }
  \cup { [tag |-> t, q |-> y] : t \in TagParams, y \in QParams }

FewQueries == { Empty, [tag |-> <<"a">>] }

NoQuery == { Empty }

LongTag == Str("g", MaxTagLen + 1)

TagArrays ==
  { << <<"a">> >>, << <<"A">> >>, << <<"a", "b">>, <<"a">> >>,
    << <<"a">>, <<"a">> >>, << <<>> >>, << LongTag >>,
    << <<"a">>, LongTag >> }

DelArrays ==
  { << <<"a">> >>, << <<"A">> >>, << <<"a", "b">> >>, << LongTag >>,
    << Str("g", MaxTagLen) >> }

TitleInputs == { <<"A", "b">>, <<>>, Str("t", MaxTitleLen + 1) }

\* request.body of PATCH /dropbox/:media, without the password key
PatchBodies ==
  { Empty }
  \cup { [setTitle |-> t] : t \in TitleInputs }
  \cup { [addTags |-> a] : a \in TagArrays }
  \cup { [delTags |-> d] : d \in DelArrays }
  \cup { [addTags |-> << <<"a">> >>, delTags |-> << <<"a">> >>],
         [addTags |-> << <<"a", "b">>, <<"a">> >>, delTags |-> << <<"A">> >>],
         [addTags |-> << <<"A">> >>, delTags |-> << <<"a", "b">> >>],
         [addTags |-> << <<"a">> >>, delTags |-> << LongTag >>],
         [setTitle |-> Str("t", MaxTitleLen + 1), addTags |-> << <<"a">> >>],
         [setTitle |-> <<"A", "b">>, addTags |-> << <<"A", "B">> >>,
          delTags |-> << <<"a">> >>] }

FewBodies ==
  { [addTags |-> << <<"a">> >>], [delTags |-> << <<"a">> >>] }

SearchBodies ==
  { [addTags |-> << <<"a">> >>], [addTags |-> << <<"a", "b">> >>],
    [delTags |-> << <<"a">> >>], [setTitle |-> <<"b">>] }

VttExt == <<".", "v", "t", "t">>

VttFile == <<"s">> \o VttExt

SrtFile == <<"s", ".", "s", "r", "t">>

\* file.name of the uploaded subtitle file
FileNames == { VttFile, SrtFile }

(* ------------------------------- state -------------------------------- *)

\* does the persisted document d hold exactly the pairs of lib, in order?
Mirrors(d, lib) ==
  /\ Len(d) = Len(lib)
  /\ \A i \in 1..Len(lib) :
       d[i][1] = lib[i].mediaId /\ d[i][2] = ToJson(lib[i])

Init ==
  /\ library = <<>>
  /\ doc = <<>>
  /\ nextId = 1
  /\ inflight = {}
  /\ deleted = {}
  /\ last = [route |-> "start"]

(* ------------------------------ handlers ------------------------------ *)

\* GET /dropbox
GetDropbox(queries) ==
  \E query \in queries :
    /\ last' = [route |-> "GET /dropbox", query |-> query, status |-> 200,
                result |-> mapWithSrc(searchLibrary(library, query))]
    /\ UNCHANGED <<library, doc, nextId, inflight, deleted>>

\* GET /dropbox/:media, behind app.param("media")
GetMedia ==
  \E id \in PathIds :
    /\ last' = IF libraryHas(library, id)
               THEN [route |-> "GET /dropbox/:media", mediaId |-> id,
                     status |-> 200,
                     entry |-> withSrc(libraryGet(library, id))]
               ELSE [route |-> "GET /dropbox/:media", mediaId |-> id,
                     status |-> 404]
    /\ UNCHANGED <<library, doc, nextId, inflight, deleted>>

\* POST /dropbox/auth
PostAuth(creds) ==
  \E cred \in creds :
    LET body == withPassword(Empty, cred)
        req == [route |-> "POST /dropbox/auth",
                authorization |-> cred.authorization, body |-> body]
    IN /\ last' = IF requireAuth(cred.authorization, body)
                  THEN req @@ [status |-> 200, ran |-> TRUE]
                  ELSE req @@ [status |-> 401, ran |-> FALSE]
       /\ UNCHANGED <<library, doc, nextId, inflight, deleted>>

\* POST /dropbox
PostDropbox(creds) ==
  \E cred \in creds, b \in CreateBodies :
    LET body == withPassword(b, cred)
        req == [route |-> "POST /dropbox",
                authorization |-> cred.authorization, body |-> body]
    IN IF ~requireAuth(cred.authorization, body)
       THEN /\ last' = req @@ [status |-> 401, ran |-> FALSE]
            /\ UNCHANGED <<library, doc, nextId, inflight, deleted>>
       ELSE /\ nextId <= MaxIds
            /\ LET mediaId == nanoid(nextId)
                   info == [mediaId |-> mediaId, title |-> body.title,
                            url |-> body.url, tags |-> <<>>,
                            subtitle |-> NoValue]
                   lib1 == librarySet(library, info)
               IN /\ library' = lib1
                  /\ last' = req @@ [status |-> 200, ran |-> TRUE,
                                     mediaId |-> mediaId,
                                     entry |-> withSrc(info),
                                     persisted |-> Mirrors(doc, lib1)]
                  /\ doc' = save(lib1, doc)
            /\ nextId' = nextId + 1
            /\ UNCHANGED <<inflight, deleted>>

\* PATCH /dropbox/:media: app.param("media"), requireAuth, then the handler
PatchMedia(creds, bodies) ==
  \E id \in PathIds, cred \in creds, b \in bodies :
    LET body == withPassword(b, cred)
        req == [route |-> "PATCH /dropbox/:media", mediaId |-> id,
                authorization |-> cred.authorization, body |-> body]
    IN IF ~libraryHas(library, id)
       THEN /\ last' = req @@ [status |-> 404, ran |-> FALSE]
            /\ UNCHANGED <<library, doc, nextId, inflight, deleted>>
       ELSE IF ~requireAuth(cred.authorization, body)
       THEN /\ last' = req @@ [status |-> 401, ran |-> FALSE]
            /\ UNCHANGED <<library, doc, nextId, inflight, deleted>>
       ELSE IF patchSchema(body).error
       THEN /\ last' = req @@ [status |-> 400, ran |-> TRUE]
            /\ UNCHANGED <<library, doc, nextId, inflight, deleted>>
       ELSE LET entry == libraryGet(library, id)
                entry1 == patchEntry(entry, patchSchema(body).value)
                lib1 == librarySet(library, entry1)
            IN /\ library' = lib1
               /\ last' = req @@ [status |-> 200, ran |-> TRUE,
                                  before |-> entry,
                                  entry |-> withSrc(entry1),
                                  persisted |-> Mirrors(doc, lib1)]
               /\ doc' = save(lib1, doc)
               /\ UNCHANGED <<nextId, inflight, deleted>>

\* the entry object leaves the Map but stays referenced by the requests
\* that resolved it and still await their file move
detach(ops, entry) ==
  { IF op.kind = "mv" /\ op.mediaId = entry.mediaId /\ op.obj = <<>>
    THEN [op EXCEPT !.obj = <<entry>>]
    ELSE op : op \in ops }

\* DELETE /dropbox/:media
DeleteMedia(creds, queries) ==
  \E id \in PathIds, cred \in creds, query \in queries :
    LET body == withPassword(Empty, cred)
        req == [route |-> "DELETE /dropbox/:media", mediaId |-> id,
                authorization |-> cred.authorization, body |-> body,
                query |-> query]
    IN IF ~libraryHas(library, id)
       THEN /\ last' = req @@ [status |-> 404, ran |-> FALSE]
            /\ UNCHANGED <<library, doc, nextId, inflight, deleted>>
       ELSE IF ~requireAuth(cred.authorization, body)
       THEN /\ last' = req @@ [status |-> 401, ran |-> FALSE]
            /\ UNCHANGED <<library, doc, nextId, inflight, deleted>>
       ELSE LET lib1 == libraryDelete(library, id)
                doc1 == save(lib1, doc)
            IN /\ library' = lib1
               /\ doc' = doc1
               /\ last' = req @@ [status |-> 200, ran |-> TRUE,
                                  result |->
                                    mapWithSrc(searchLibrary(lib1, query)),
                                  persisted |-> Mirrors(doc1, lib1)]
               /\ inflight' = detach(inflight, libraryGet(library, id))
               /\ deleted' = deleted \cup {id}
               /\ UNCHANGED nextId

\* PUT /dropbox/:media/subtitles, up to its await (or to its end when the
\* file is not a .vtt file and nothing is awaited).  MEDIA_PATH is declared
\* nowhere in server.mjs: join(MEDIA_PATH, filename) throws ReferenceError
\* unless the global object binds the name, so both outcomes are admitted.
PutSubtitles(creds, files) ==
  \E id \in PathIds, cred \in creds, name \in files, bound \in BOOLEAN :
    LET body == withPassword(Empty, cred)
        req == [route |-> "PUT /dropbox/:media/subtitles", mediaId |-> id,
                authorization |-> cred.authorization, body |-> body,
                file |-> name]
        filename == id \o VttExt
    IN IF ~libraryHas(library, id)
       THEN /\ last' = req @@ [status |-> 404, ran |-> FALSE]
            /\ UNCHANGED <<library, doc, nextId, inflight, deleted>>
       ELSE IF ~requireAuth(cred.authorization, body)
       THEN /\ last' = req @@ [status |-> 401, ran |-> FALSE]
            /\ UNCHANGED <<library, doc, nextId, inflight, deleted>>
       ELSE IF ~bound
       THEN /\ last' = req @@ [status |-> 0, ran |-> TRUE, thrown |-> TRUE]
            /\ UNCHANGED <<library, doc, nextId, inflight, deleted>>
       ELSE IF endsWith(name, VttExt)
       THEN \* await file.mv(path)
            LET op == [kind |-> "mv", mediaId |-> id, obj |-> <<>>]
            IN /\ Cardinality(inflight) < MaxInflight
               /\ op \notin inflight
               /\ inflight' = inflight \cup {op}
               /\ last' = req @@ [status |-> 0, ran |-> TRUE,
                                  thrown |-> FALSE]
               /\ UNCHANGED <<library, doc, nextId, deleted>>
       ELSE \* read.pipe(srt2vtt()).pipe(createWriteStream(path))
            LET op == [kind |-> "convert", mediaId |-> id, obj |-> <<>>]
                entry == libraryGet(library, id)
                entry1 == [entry EXCEPT !.subtitle = filename]
                lib1 == librarySet(library, entry1)
            IN /\ Cardinality(inflight) < MaxInflight
               /\ op \notin inflight
               /\ inflight' = inflight \cup {op}
               /\ library' = lib1
               /\ last' = req @@ [status |-> 200, ran |-> TRUE,
                                  entry |-> withSrc(entry1),
                                  inLibrary |-> libraryHas(library, id),
                                  artifactReady |-> op \notin inflight',
                                  persisted |-> Mirrors(doc, lib1)]
               /\ doc' = save(lib1, doc)
               /\ UNCHANGED <<nextId, deleted>>

\* PUT /dropbox/:media/subtitles after its await: file.mv resolved
MvResolved ==
  \E op \in inflight :
    /\ op.kind = "mv"
    /\ LET held == op.obj = <<>>
           entry == IF held THEN libraryGet(library, op.mediaId)
                    ELSE op.obj[1]
           entry1 == [entry EXCEPT !.subtitle = op.mediaId \o VttExt]
           lib1 == IF held THEN librarySet(library, entry1) ELSE library
       IN /\ library' = lib1
          /\ last' = [route |-> "PUT /dropbox/:media/subtitles",
                      mediaId |-> op.mediaId, file |-> VttFile,
                      status |-> 200, ran |-> TRUE,
                      entry |-> withSrc(entry1),
                      inLibrary |-> libraryHas(library, op.mediaId),
                      artifactReady |-> TRUE,
                      persisted |-> Mirrors(doc, lib1)]
          /\ doc' = save(lib1, doc)
    /\ inflight' = inflight \ {op}
    /\ UNCHANGED <<nextId, deleted>>

\* file.mv rejected: the handler's promise rejects, nothing is sent
MvRejected ==
  \E op \in inflight :
    /\ op.kind = "mv"
    /\ inflight' = inflight \ {op}
    /\ last' = [route |-> "PUT /dropbox/:media/subtitles",
                mediaId |-> op.mediaId, file |-> VttFile,
                status |-> 0, ran |-> TRUE, thrown |-> TRUE]
    /\ UNCHANGED <<library, doc, nextId, deleted>>

\* the conversion stream ended, with a written file or with an "error"
\* event that the handler only logs
ConvertEnded ==
  \E op \in inflight, ok \in BOOLEAN :
    /\ op.kind = "convert"
    /\ inflight' = inflight \ {op}
    /\ last' = [route |-> "convert", mediaId |-> op.mediaId, ok |-> ok]
    /\ UNCHANGED <<library, doc, nextId, deleted>>

\* the process ends, on SIGINT after a last save() and otherwise without,
\* and starts again: new Map(db.data.entries)
Restart ==
  \E sigint \in BOOLEAN :
    LET doc1 == IF sigint THEN save(library, doc) ELSE doc
    IN /\ doc' = doc1
       /\ library' = Load(doc1)
       /\ inflight' = {}
       /\ last' = [route |-> "start"]
       /\ UNCHANGED <<nextId, deleted>>

(* --------------------------- specifications --------------------------- *)

\* every route, the owner's requests
Next ==
  \/ GetDropbox(FewQueries)
  \/ GetMedia
  \/ PostAuth(Owner)
  \/ PostDropbox(Owner)
  \/ PutSubtitles(Owner, FileNames)
  \/ PatchMedia(Owner, FewBodies)
  \/ DeleteMedia(Owner, FewQueries)
  \/ MvResolved
  \/ MvRejected
  \/ ConvertEnded
  \/ Restart

Spec == Init /\ [][Next]_vars

\* the routes behind requireAuth, every credential
NextAuth ==
  \/ PostAuth(Credentials)
  \/ PostDropbox(Credentials)
  \/ PutSubtitles(Credentials, {SrtFile})
  \/ PatchMedia(Credentials, {[addTags |-> << <<"a">> >>]})
  \/ DeleteMedia(Credentials, NoQuery)
  \/ ConvertEnded

SpecAuth == Init /\ [][NextAuth]_vars

\* PATCH with every body
NextPatch ==
  \/ PostDropbox(Owner)
  \/ PatchMedia(Owner, PatchBodies)
  \/ PatchMedia({BodyExact}, {Empty})
  \/ GetMedia

SpecPatch == Init /\ [][NextPatch]_vars

\* search with every query
NextSearch ==
  \/ PostDropbox(Owner)
  \/ PatchMedia(Owner, SearchBodies)
  \/ DeleteMedia(Owner, NoQuery)
  \/ GetDropbox(Queries)

SpecSearch == Init /\ [][NextSearch]_vars

(* ------------------------------- claims ------------------------------- *)

Range(seq) == {seq[i] : i \in 1..Len(seq)}

NoDuplicate(seq) == \A i, j \in 1..Len(seq) : seq[i] = seq[j] => i = j

\* the tags a PATCH body lists under key, as sent
SentTags(body, key) == IF key \in DOMAIN body THEN Range(body[key]) ELSE {}

\* the same tags in lowercase
LowerTags(body, key) == {toLowerCase(t) : t \in SentTags(body, key)}

PatchApplied == last.route = "PATCH /dropbox/:media" /\ last.status = 200

\* C1 as stated: after a PATCH that passed validation the entry's tags are,
\* as a set, (tags before + addTags) - delTags with the tags as the body
\* lists them, without duplicate, all lowercase, and without any tag that
\* is listed in both addTags and delTags.
C1_TagsAsSent ==
  PatchApplied =>
    /\ Range(last.entry.tags) =
         (Range(last.before.tags) \cup SentTags(last.body, "addTags"))
           \ SentTags(last.body, "delTags")
    /\ NoDuplicate(last.entry.tags)
    /\ \A t \in Range(last.entry.tags) : t = toLowerCase(t)
    /\ \A t \in SentTags(last.body, "addTags")
                  \cap SentTags(last.body, "delTags") :
         t \notin Range(last.entry.tags)

\* C1 amended: after a PATCH that passed validation the entry's tags are,
\* as a set, (tags before + lowercased addTags) - lowercased delTags,
\* without duplicate, all lowercase, and without any tag whose lowercase
\* form is listed in both addTags and delTags.
C1_TagsLowercased ==
  PatchApplied =>
    /\ Range(last.entry.tags) =
         (Range(last.before.tags) \cup LowerTags(last.body, "addTags"))
           \ LowerTags(last.body, "delTags")
    /\ NoDuplicate(last.entry.tags)
    /\ \A t \in Range(last.entry.tags) : t = toLowerCase(t)
    /\ \A t \in LowerTags(last.body, "addTags")
                  \cap LowerTags(last.body, "delTags") :
         t \notin Range(last.entry.tags)

\* a PATCH added one tag to an entry that had tags and removed another
\* that was both in the entry and in addTags
C1_Witness ==
  /\ PatchApplied
  /\ last.before.tags # <<>>
  /\ last.entry.tags # <<>>
  /\ LowerTags(last.body, "addTags") \cap LowerTags(last.body, "delTags")
       \cap Range(last.before.tags) # {}
  /\ Range(last.entry.tags) \ Range(last.before.tags) # {}

TitleOutOfRange(body) ==
  "setTitle" \in DOMAIN body
  /\ (Len(body.setTitle) < 1 \/ Len(body.setTitle) > 128)

TagOutOfRange(body) ==
  \E t \in SentTags(body, "addTags") \cup SentTags(body, "delTags") :
    Len(t) < 1 \/ Len(t) > 32

TagNotLowercase(body) ==
  \E t \in SentTags(body, "addTags") \cup SentTags(body, "delTags") :
    t # toLowerCase(t)

PatchHandled == last.route = "PATCH /dropbox/:media" /\ last.ran

\* C2 as stated: a PATCH whose setTitle is not 1-128 characters, or with a
\* tag that is not lowercase or not 1-32 characters, is answered with 400.
C2_NotLowercaseRejected ==
  (PatchHandled
     /\ (TitleOutOfRange(last.body) \/ TagOutOfRange(last.body)
           \/ TagNotLowercase(last.body)))
    => last.status = 400

\* C2 amended: a PATCH whose setTitle is not 1-128 characters, or with a
\* tag that is not 1-32 characters, is answered with 400 and changes
\* neither the library nor the persisted document.
C2_OutOfRangeRejected ==
  [][ (last'.route = "PATCH /dropbox/:media" /\ last'.ran
         /\ (TitleOutOfRange(last'.body) \/ TagOutOfRange(last'.body)))
       => (last'.status = 400 /\ library' = library /\ doc' = doc) ]_vars

\* a PATCH with a tag or a title out of range was refused while the
\* library held two entries, the addressed one with tags
C2_Witness ==
  /\ PatchHandled
  /\ last.status = 400
  /\ TitleOutOfRange(last.body) \/ TagOutOfRange(last.body)
  /\ Len(library) >= 2
  /\ libraryGet(library, last.mediaId).tags # <<>>

AuthRoutes ==
  { "POST /dropbox/auth", "POST /dropbox", "PUT /dropbox/:media/subtitles",
    "PATCH /dropbox/:media", "DELETE /dropbox/:media" }

\* a request of a client (not the continuation of one)
IsRequest(ev) == ev.route \in AuthRoutes /\ "authorization" \in DOMAIN ev

\* the request carries a Bearer header ending in the secret, or a body
\* password equal to it
CarriesCredential(ev) ==
  \/ /\ ev.authorization # NoValue
     /\ Len(ev.authorization) >= 6
     /\ SubSeq(ev.authorization, 1, 6) = <<"B", "e", "a", "r", "e", "r">>
     /\ Len(ev.authorization) >= Len(PASSWORD)
     /\ SubSeq(ev.authorization,
               Len(ev.authorization) - Len(PASSWORD) + 1,
               Len(ev.authorization)) = PASSWORD
  \/ /\ "password" \in DOMAIN ev.body
     /\ ev.body.password = PASSWORD

\* the request carries exactly the secret, as Bearer token or as password
CarriesSecret(ev) ==
  \/ ev.authorization = <<"B", "e", "a", "r", "e", "r", " ">> \o PASSWORD
  \/ /\ "password" \in DOMAIN ev.body
     /\ ev.body.password = PASSWORD

WithTag(x) ==
  LET Has(e) == x \in Range(e.tags) IN SelectSeq(library, Has)

\* the entries of entries whose lowercased title contains y
WithTitle(entries, y) ==
  LET Has(e) ==
        \E i \in 1..(Len(e.title) + 1), j \in 0..Len(e.title) :
          /\ i + j - 1 <= Len(e.title)
          /\ SubSeq(toLowerCase(e.title), i, i + j - 1) = y
  IN SelectSeq(entries, Has)

Listed == last.route = "GET /dropbox"

\* C4 as stated: a search with tag=X, for every string X, returns the
\* entries with the lowercased X among their tags, in insertion order.
C4_AnyTag ==
  (Listed /\ DOMAIN last.query = {"tag"}) =>
    last.result = mapWithSrc(WithTag(toLowerCase(last.query.tag)))

\* C4 amended: a search with tag=X, for every non-empty string X, returns
\* the entries with the lowercased X among their tags, in insertion order.
C4_NonEmptyTag ==
  (Listed /\ DOMAIN last.query = {"tag"} /\ last.query.tag # <<>>) =>
    last.result = mapWithSrc(WithTag(toLowerCase(last.query.tag)))

\* a search by tag returned an entry and left out another whose tag only
\* contains the searched string
C4_Witness ==
  /\ Listed
  /\ DOMAIN last.query = {"tag"}
  /\ last.query.tag # <<>>
  /\ last.result # <<>>
  /\ \E i \in 1..Len(library) :
       /\ \A k \in 1..Len(last.result) :
            last.result[k].mediaId # library[i].mediaId
       /\ \E t \in Range(library[i].tags) :
            includes(t, toLowerCase(last.query.tag))

C6_DeletedStaysGone ==
  /\ \A id \in deleted :
       /\ id \notin Ids(library)
       /\ id \notin Ids(Load(doc))
       /\ \A i \in 1..Len(doc) : doc[i][1] # id
  /\ (last.route = "GET /dropbox/:media" /\ last.mediaId \in deleted)
       => last.status = 404
  /\ (last.route = "DELETE /dropbox/:media" /\ last.status = 200)
       => \A k \in 1..Len(last.result) :
            last.result[k].mediaId # last.mediaId

\* a deleted entry was fetched while another entry is in the library
C6_Witness ==
  /\ last.route = "GET /dropbox/:media"
  /\ last.mediaId \in deleted
  /\ library # <<>>

\* C7: the persisted document holds the (id, entry) pairs of the library
\* in the library's order, and the library loaded from it is the library.
C7_DocumentMirrorsLibrary ==
  /\ Len(doc) = Len(library)
  /\ \A i \in 1..Len(doc) :
       /\ doc[i][1] = library[i].mediaId
       /\ FromJson(doc[i][2]) = library[i]
  /\ Load(doc) = library

\* create, PATCH, subtitle attach and DELETE have all completed
C7_Witness ==
  /\ deleted # {}
  /\ \E i \in 1..Len(library) :
       library[i].tags # <<>> /\ library[i].subtitle # NoValue
  /\ inflight = {}

MutatingRoutes ==
  { "POST /dropbox", "PUT /dropbox/:media/subtitles",
    "PATCH /dropbox/:media", "DELETE /dropbox/:media" }

\* C8: when a mutating handler sends its response, the persisted document
\* already holds the library as that handler changed it.
C8_PersistedBeforeResponse ==
  (last.route \in MutatingRoutes /\ last.status = 200) => last.persisted

====
